---- MODULE Spec2Model ----
(***************************************************************************)
(* State-machine model of schemarize/readers.py: the generator functions   *)
(* read_jsonl, read_json_array, read_csv and read_parquet.  One behaviour  *)
(* is one call of one reader on one source.  A generator is driven by the  *)
(* caller: Pull is next(gen), Abandon is gen.close().  A Pull runs the     *)
(* generator body from where it is suspended to the next yield, raise or   *)
(* return, the finally clause included.                                    *)
(***************************************************************************)
EXTENDS Integers, Sequences, FiniteSets, TLC

(* ------------------------------ bounds -------------------------------- *)

\* Most physical lines / array elements / data rows / table rows of a source.
MaxLines == 3
\* Most items the buffered layer under a reader (the text decoder of a file
\* opened in "rt" mode, ijson's input buffer) has consumed beyond the item
\* being produced.
MaxAhead == 1
\* Largest chunk_size / batch_size tried.
MaxChunk == 2

VARIABLES
    reader,        \* which generator function was called
    srcKind,       \* variant of `source`: "path", "text_handle" (a TextIOBase), "handle"
    path,          \* the path string, as <<stem, ext, ...>>; <<>> for a handle
    chunk_size,    \* read_csv chunk_size / read_parquet batch_size; 0 is None
    shape,         \* well-formedness of the container (JSON array, Parquet file)
    ahead,         \* read-ahead of the buffered layer under the reader, in items
    content,       \* the source's content: lines, elements or rows
    pc,            \* generator state: created, suspended, exhausted, raised, closed
    idx,           \* physical items consumed by the reader's loop so far
    out,           \* records yielded so far, in order
    err,           \* the exception the generator raised, kind "none" if none
    batch,         \* rest of the current chunk / row batch, not yet yielded
    file_obj,      \* what file_obj designates: "none", "owned", "caller"
    close_obj,     \* close_obj / close_buffer
    owned,         \* handle or buffer the reader created: none, open, closed
    callerHandle,  \* the caller's handle: none (path source), open, closed
    libHandle,     \* handle a library opened on the path for the reader
    codec,         \* decompression layer the data is read through
    srcPos         \* items read from the caller's handle so far

inputs == <<reader, srcKind, path, chunk_size, shape, ahead, content>>
vars == <<reader, srcKind, path, chunk_size, shape, ahead, content, pc, idx, out,
          err, batch, file_obj, close_obj, owned, callerHandle, libHandle, codec,
          srcPos>>

(* ------------------------------ helpers ------------------------------- *)

Min(a, b) == IF a <= b THEN a ELSE b

SeqUpTo(S, n) == UNION {[1..k -> S] : k \in 0..n}

IsPrefix(s, t) == Len(s) <= Len(t) /\ SubSeq(t, 1, Len(s)) = s

NoErr == [kind |-> "none", line |-> 0, msg |-> ""]

Terminated == {"exhausted", "raised", "closed"}

(* --------------------------- source resolver -------------------------- *)

\* str.endswith on the path's last extension.
EndsWith(p, ext) == Len(p) >= 2 /\ p[Len(p)] = ext

\* The layer a path is opened through: gzip.open / bz2.open / open.
SuffixCodec(p) ==
    IF EndsWith(p, ".gz") THEN "gzip"
    ELSE IF EndsWith(p, ".bz2") THEN "bz2"
    ELSE "plain"

\* pd.read_csv is given the path string itself and no compression argument:
\* pandas infers the layer from the extension (compression="infer"), and its
\* table knows more extensions than the reader's.
PandasInferCodec(p) ==
    IF EndsWith(p, ".gz") THEN "gzip"
    ELSE IF EndsWith(p, ".bz2") THEN "bz2"
    ELSE IF EndsWith(p, ".xz") THEN "xz"
    ELSE "plain"

\* read_jsonl / read_json_array drain a TextIOBase handle into a BytesIO.
DrainsNever(k) == FALSE
DrainsSource(k) == k = "text_handle"

\* close_obj as the three branches of read_jsonl / read_json_array set it.
CloseAlways(k) == TRUE
CloseObjFor(k) == k = "path" \/ DrainsSource(k)

\* close_obj as read_csv sets it.
CsvCloseObjFor(k) == k = "path"

\* close_buffer as read_parquet sets it.
ParquetCloseBufferFor(k) == k # "path"

\* The finally clause: `if close_obj: file_obj.close()`.
OwnedAfterFinally(co, fo, ow) == IF co /\ fo = "owned" THEN "closed" ELSE ow
CallerAfterFinally(co, fo, ch) == IF co /\ fo = "caller" THEN "closed" ELSE ch

(* ------------------------------- JSONL -------------------------------- *)

Digits == {"1", "2"}
DigitVal(c) == IF c = "1" THEN 1 ELSE 2

\* "#" stands for a byte sequence that is not valid UTF-8.
Undecodable(s) == \E k \in 1..Len(s) : s[k] = "#"

RECURSIVE LStrip(_)
LStrip(s) == IF s # <<>> /\ Head(s) = " " THEN LStrip(Tail(s)) ELSE s

RECURSIVE RStrip(_)
RStrip(s) ==
    IF s # <<>> /\ s[Len(s)] = " " THEN RStrip(SubSeq(s, 1, Len(s) - 1)) ELSE s

\* str.strip()
Strip(s) == RStrip(LStrip(s))

\* json.loads succeeds on a numeral.
JsonValid(t) == t # <<>> /\ \A k \in 1..Len(t) : t[k] \in Digits

RECURSIVE JsonNumber(_)
JsonNumber(t) ==
    IF t = <<>> THEN 0
    ELSE 10 * JsonNumber(SubSeq(t, 1, Len(t) - 1)) + DigitVal(t[Len(t)])

\* json.loads(text), on a valid text.
JsonLoads(t) == JsonNumber(t)

\* err.msg of json.loads on an invalid text.
JsonErrMsg(t) == IF t[1] \in Digits THEN "Extra data" ELSE "Expecting value"

\* enumerate(file_obj, start=1)
ErrLineZeroBased(i) == i - 1
ErrLine(i) == i

\* bytes.decode("utf-8") of a bytes line.
DecodeBytesIgnore(s) == [ok |-> TRUE, s |-> SelectSeq(s, LAMBDA c : c # "#")]
DecodeBytes(s) == [ok |-> ~Undecodable(s), s |-> s]

\* The items the for loop of read_jsonl receives from file_obj: a path is
\* opened in text mode and delivers str lines; a drained text handle is
\* re-encoded and delivers bytes lines; any other handle delivers its own.
JsonlItems(k, c) ==
    IF k = "path" THEN [i \in 1..Len(c) |-> [ty |-> "str", s |-> c[i].s]]
    ELSE IF DrainsSource(k) THEN [i \in 1..Len(c) |-> [ty |-> "bytes", s |-> c[i].s]]
    ELSE c

\* The text layer of a file opened "rt" decodes a buffer at a time: reading
\* line i fails when line i or a line it has buffered with it is not UTF-8.
TextLayerFails(k, c, a, i) ==
    k = "path" /\ \E j \in i..Min(i + a, Len(c)) : Undecodable(c[j].s)

\* The loop body with `break` in place of `continue` on a blank line.
LineOutcomeBlankBreaks(it, i) ==
    LET dec == IF it.ty = "bytes" THEN DecodeBytes(it.s) ELSE [ok |-> TRUE, s |-> it.s]
        text == Strip(dec.s)
    IN  IF ~dec.ok
        THEN [k |-> "raise", idx |-> i, val |-> 0,
              err |-> [kind |-> "UnicodeDecodeError", line |-> 0, msg |-> "invalid start byte"]]
        ELSE IF it.ty = "obj" THEN [k |-> "continue", idx |-> i, val |-> 0, err |-> NoErr]
        ELSE IF text = <<>> THEN [k |-> "stop", idx |-> i, val |-> 0, err |-> NoErr]
        ELSE IF JsonValid(text)
        THEN [k |-> "yield", idx |-> i, val |-> JsonLoads(text), err |-> NoErr]
        ELSE [k |-> "raise", idx |-> i, val |-> 0,
              err |-> [kind |-> "JSONDecodeError", line |-> ErrLine(i),
                       msg |-> JsonErrMsg(text)]]

\* One pass of the loop body on item i: continue, yield or raise.
LineOutcome(it, i) ==
    LET dec == IF it.ty = "bytes" THEN DecodeBytes(it.s) ELSE [ok |-> TRUE, s |-> it.s]
        text == Strip(dec.s)
    IN  IF ~dec.ok
        THEN [k |-> "raise", idx |-> i, val |-> 0,
              err |-> [kind |-> "UnicodeDecodeError", line |-> 0, msg |-> "invalid start byte"]]
        ELSE IF it.ty = "obj" THEN [k |-> "continue", idx |-> i, val |-> 0, err |-> NoErr]
        ELSE IF text = <<>> THEN [k |-> "continue", idx |-> i, val |-> 0, err |-> NoErr]
        ELSE IF JsonValid(text)
        THEN [k |-> "yield", idx |-> i, val |-> JsonLoads(text), err |-> NoErr]
        ELSE [k |-> "raise", idx |-> i, val |-> 0,
              err |-> [kind |-> "JSONDecodeError", line |-> ErrLine(i),
                       msg |-> JsonErrMsg(text)]]

\* The loop of read_jsonl resumed after item i - 1, up to the next yield,
\* raise or the end of the input.
RECURSIVE JsonlRun(_, _, _, _)
JsonlRun(k, c, a, i) ==
    IF i > Len(c) THEN [k |-> "stop", idx |-> Len(c), val |-> 0, err |-> NoErr]
    ELSE IF TextLayerFails(k, c, a, i)
    THEN [k |-> "raise", idx |-> i - 1, val |-> 0,
          err |-> [kind |-> "UnicodeDecodeError", line |-> 0, msg |-> "invalid start byte"]]
    ELSE LET o == LineOutcome(JsonlItems(k, c)[i], i)
         IN  IF o.k = "continue" THEN JsonlRun(k, c, a, i + 1) ELSE o


(* ----------------------------- JSON array ----------------------------- *)

\* ijson decodes its input a buffer at a time: producing element i fails
\* when element i, or an element buffered with it, is malformed, or when the
\* buffer reaches the end of an array that is never closed.
ArrayParseFails(c, sh, a, i) ==
    \/ \E j \in i..Min(i + a, Len(c)) : ~c[j].ok
    \/ sh = "unterminated" /\ i + a > Len(c)

\* `except Exception as err: raise json.JSONDecodeError(...)`
WrapArrayErrorReraise(e) == e
WrapArrayError(e) == [kind |-> "JSONDecodeError", line |-> 0, msg |-> "Error parsing JSON array"]

\* The loop over ijson.items(file_obj, "item") resumed after element i - 1.
\* A top-level value that is not an array has nothing under the prefix "item".
RECURSIVE ArrayRun(_, _, _, _)
ArrayRun(c, sh, a, i) ==
    IF ArrayParseFails(c, sh, a, i)
    THEN [k |-> "raise", idx |-> i - 1, val |-> 0,
          err |-> WrapArrayError([kind |-> "IncompleteJSONError", line |-> 0,
                                  msg |-> "parse error"])]
    ELSE IF i > Len(c) THEN [k |-> "stop", idx |-> Len(c), val |-> 0, err |-> NoErr]
    ELSE IF sh = "object" THEN ArrayRun(c, sh, a, i + 1)
    ELSE [k |-> "yield", idx |-> i, val |-> c[i].v, err |-> NoErr]

(* -------------------------------- CSV --------------------------------- *)

Txt(s) == [t |-> "str", v |-> <<s>>]
NoneCell == [t |-> "none", v |-> <<>>]
NaN == [t |-> "nan", v |-> <<>>]

HeaderKeys(h) == {h[j] : j \in 1..Len(h)}
KeyIndex(h, key) == CHOOSE j \in 1..Len(h) : h[j] = key

\* csv.DictReader's row: dict(zip(fieldnames, row)), the extra fields under
\* restkey (None), the missing ones set to restval (None).
DictZip(h, row) ==
    [key \in HeaderKeys(h) \cup (IF Len(row) > Len(h) THEN {"<restkey>"} ELSE {}) |->
        IF key = "<restkey>" THEN [t |-> "list", v |-> SubSeq(row, Len(h) + 1, Len(row))]
        ELSE IF KeyIndex(h, key) <= Len(row) THEN Txt(row[KeyIndex(h, key)])
        ELSE NoneCell]

\* any(v is None for v in row.values())
HasMissingNever(d) == FALSE
HasMissing(d) == \E key \in DOMAIN d : d[key].t = "none"

\* reader.line_num when the row of physical line i has been read.
LineNum(c, i) == i

\* The DictReader loop resumed after physical line i - 1: line 1 is the
\* header, an empty line is skipped by DictReader itself.
RECURSIVE CsvRun(_, _)
CsvRun(c, i) ==
    IF i > Len(c) THEN [k |-> "stop", idx |-> Len(c), val |-> 0, err |-> NoErr]
    ELSE IF i = 1 \/ c[i] = <<>> THEN CsvRun(c, i + 1)
    ELSE LET d == DictZip(c[1], c[i])
         IN  IF HasMissing(d)
             THEN [k |-> "raise", idx |-> i, val |-> 0,
                   err |-> [kind |-> "RuntimeError", line |-> LineNum(c, i),
                            msg |-> "Error reading CSV: Malformed CSV row at line"]]
             ELSE [k |-> "yield", idx |-> i, val |-> d, err |-> NoErr]

\* The next n non-empty data rows from physical line i on: one pandas chunk.
RECURSIVE TakeRows(_, _, _)
TakeRows(c, i, n) ==
    IF i > Len(c) \/ n = 0 THEN [rows |-> <<>>, idx |-> i - 1]
    ELSE IF i = 1 \/ c[i] = <<>> THEN TakeRows(c, i + 1, n)
    ELSE LET t == TakeRows(c, i + 1, n - 1)
         IN  [rows |-> <<c[i]>> \o t.rows, idx |-> t.idx]

NumericText(s) == s \in Digits

\* pandas infers each column's dtype from the chunk: a column of numerals
\* becomes int64, of numerals and empty fields float64, an empty field NaN.
PandasCell(rows, r, j) ==
    LET numeric == \A q \in 1..Len(rows) : NumericText(rows[q][j]) \/ rows[q][j] = ""
        holes == \E q \in 1..Len(rows) : rows[q][j] = ""
    IN  IF rows[r][j] = "" THEN NaN
        ELSE IF numeric THEN [t |-> IF holes THEN "float" ELSE "int", v |-> <<rows[r][j]>>]
        ELSE Txt(rows[r][j])

\* chunk.to_dict(orient="records")
ChunkRecords(h, rows) ==
    [r \in 1..Len(rows) |-> [key \in HeaderKeys(h) |-> PandasCell(rows, r, KeyIndex(h, key))]]

(* ------------------------------ Parquet ------------------------------- *)

\* iter_batches(batch_size=...) / iter_batches(): without a batch size the
\* engine's default holds every row of a source this small.
BatchRows(c, i, n) ==
    IF n = 0 THEN SubSeq(c, i, Len(c)) ELSE SubSeq(c, i, Min(i + n - 1, Len(c)))

(* ------------------------------ inputs -------------------------------- *)

Paths == { <<"d", ".txt">>, <<"d", ".gz">>, <<"d", ".bz2">>, <<"d", ".xz">>,
           <<"d", ".gz", ".txt">> }

TextLines == { <<>>, <<" ">>, <<"1">>, <<" ", "2", " ">>, <<"1", "2">>, <<"x">>,
               <<"1", " ", "2">> }

\* What a source of each variant can hold, line by line.
JsonlLineSet(k) ==
    IF k = "path" THEN {[ty |-> "bytes", s |-> s] : s \in TextLines \cup {<<"#">>}}
    ELSE IF k = "text_handle" THEN {[ty |-> "str", s |-> s] : s \in TextLines}
    ELSE {[ty |-> "bytes", s |-> s] : s \in (TextLines \ {<<"1", " ", "2">>}) \cup {<<"#">>}}
         \cup {[ty |-> "str", s |-> <<"2">>], [ty |-> "obj", s |-> <<>>]}

InitRun ==
    /\ pc = "created"
    /\ idx = 0
    /\ out = <<>>
    /\ err = NoErr
    /\ batch = <<>>
    /\ file_obj = "none"
    /\ close_obj = FALSE
    /\ owned = "none"
    /\ callerHandle = IF srcKind = "path" THEN "none" ELSE "open"
    /\ libHandle = "none"
    /\ codec = "unopened"
    /\ srcPos = 0

InitJsonl ==
    /\ reader = "jsonl"
    /\ srcKind \in {"path", "text_handle", "handle"}
    /\ path \in (IF srcKind = "path" THEN Paths ELSE {<<>>})
    /\ chunk_size = 0
    /\ shape = "lines"
    /\ ahead \in (IF srcKind = "path" THEN 0..MaxAhead ELSE {0})
    /\ content \in SeqUpTo(JsonlLineSet(srcKind), MaxLines)

Elements == {[ok |-> TRUE, v |-> 1], [ok |-> TRUE, v |-> 2], [ok |-> FALSE, v |-> 0]}

InitArray ==
    /\ reader = "json_array"
    /\ srcKind \in {"path", "text_handle", "handle"}
    /\ path \in (IF srcKind = "path" THEN Paths ELSE {<<>>})
    /\ chunk_size = 0
    /\ shape \in {"array", "unterminated", "object"}
    /\ ahead \in 0..MaxAhead
    /\ content \in SeqUpTo(Elements, MaxLines)

Header == <<"k", "v">>

\* Data lines of a CSV source: an empty line, a short row, full rows, a
\* row with an empty field, a long row.
RowSet == { <<>>, <<"A">>, <<"1", "A">>, <<"A", "">>, <<"2", "1">>, <<"A", "B", "C">> }

\* The rows of a source with no ragged row.
RectRows == {r \in RowSet : Len(r) \in {0, Len(Header)}}

InitCsv ==
    /\ reader = "csv"
    /\ srcKind \in {"path", "text_handle", "handle"}
    /\ path \in (IF srcKind = "path" THEN Paths ELSE {<<>>})
    /\ chunk_size \in 0..MaxChunk
    /\ shape = "lines"
    /\ ahead = 0
    /\ \E rows \in SeqUpTo(IF chunk_size = 0 THEN RowSet ELSE RectRows, MaxLines) :
           content = <<Header>> \o rows

InitParquet ==
    /\ reader = "parquet"
    /\ srcKind \in {"path", "text_handle", "handle"}
    /\ path \in (IF srcKind = "path" THEN {<<"d", ".parquet">>} ELSE {<<>>})
    /\ chunk_size \in 0..MaxChunk
    /\ shape \in {"valid", "corrupt"}
    /\ ahead = 0
    /\ content \in SeqUpTo({1, 2}, MaxLines)

Init == (InitJsonl \/ InitArray \/ InitCsv \/ InitParquet) /\ InitRun

(* ------------------------------ actions ------------------------------- *)

\* What the entry code of read_jsonl / read_json_array makes file_obj.
FileObjFor(k) == IF k = "path" \/ DrainsSource(k) THEN "owned" ELSE "caller"

\* next(gen) on read_jsonl.
PullJsonl ==
    /\ reader = "jsonl"
    /\ pc \in {"created", "suspended"}
    /\ LET first == pc = "created"
           co == IF first THEN CloseObjFor(srcKind) ELSE close_obj
           fo == IF first THEN FileObjFor(srcKind) ELSE file_obj
           ow == IF first /\ fo = "owned" THEN "open" ELSE owned
           o == JsonlRun(srcKind, content, ahead, idx + 1)
           done == o.k # "yield"
       IN  /\ file_obj' = fo
           /\ close_obj' = co
           /\ codec' = IF ~first THEN codec
                       ELSE IF srcKind = "path" THEN SuffixCodec(path) ELSE "plain"
           /\ srcPos' = IF srcKind = "path" THEN 0
                        ELSE IF DrainsSource(srcKind) THEN Len(content)
                        ELSE o.idx
           /\ idx' = o.idx
           /\ out' = IF o.k = "yield" THEN Append(out, o.val) ELSE out
           /\ err' = o.err
           /\ pc' = IF o.k = "yield" THEN "suspended"
                    ELSE IF o.k = "raise" THEN "raised" ELSE "exhausted"
           /\ owned' = IF done THEN OwnedAfterFinally(co, fo, ow) ELSE ow
           /\ callerHandle' = IF done THEN CallerAfterFinally(co, fo, callerHandle)
                              ELSE callerHandle
    /\ UNCHANGED <<inputs, batch, libHandle>>

\* next(gen) on read_json_array.
PullArray ==
    /\ reader = "json_array"
    /\ pc \in {"created", "suspended"}
    /\ LET first == pc = "created"
           co == IF first THEN CloseObjFor(srcKind) ELSE close_obj
           fo == IF first THEN FileObjFor(srcKind) ELSE file_obj
           ow == IF first /\ fo = "owned" THEN "open" ELSE owned
           o == ArrayRun(content, shape, ahead, idx + 1)
           done == o.k # "yield"
       IN  /\ file_obj' = fo
           /\ close_obj' = co
           /\ codec' = IF ~first THEN codec
                       ELSE IF srcKind = "path" THEN SuffixCodec(path) ELSE "plain"
           /\ srcPos' = IF srcKind = "path" THEN 0
                        ELSE IF DrainsSource(srcKind) THEN Len(content)
                        ELSE Min(o.idx + ahead, Len(content))
           /\ idx' = o.idx
           /\ out' = IF o.k = "yield" THEN Append(out, o.val) ELSE out
           /\ err' = o.err
           /\ pc' = IF o.k = "yield" THEN "suspended"
                    ELSE IF o.k = "raise" THEN "raised" ELSE "exhausted"
           /\ owned' = IF done THEN OwnedAfterFinally(co, fo, ow) ELSE ow
           /\ callerHandle' = IF done THEN CallerAfterFinally(co, fo, callerHandle)
                              ELSE callerHandle
    /\ UNCHANGED <<inputs, batch, libHandle>>

\* next(gen) on read_csv with chunk_size None: the csv.DictReader loop.
PullCsvStream ==
    /\ reader = "csv"
    /\ chunk_size = 0
    /\ pc \in {"created", "suspended"}
    /\ LET first == pc = "created"
           co == IF first THEN CsvCloseObjFor(srcKind) ELSE close_obj
           fo == IF ~first THEN file_obj ELSE IF srcKind = "path" THEN "owned" ELSE "caller"
           ow == IF first /\ fo = "owned" THEN "open" ELSE owned
           o == CsvRun(content, idx + 1)
           done == o.k # "yield"
       IN  /\ file_obj' = fo
           /\ close_obj' = co
           /\ codec' = IF ~first THEN codec
                       ELSE IF srcKind = "path" THEN SuffixCodec(path) ELSE "plain"
           /\ srcPos' = IF srcKind = "path" THEN 0 ELSE o.idx
           /\ idx' = o.idx
           /\ out' = IF o.k = "yield" THEN Append(out, o.val) ELSE out
           /\ err' = o.err
           /\ pc' = IF o.k = "yield" THEN "suspended"
                    ELSE IF o.k = "raise" THEN "raised" ELSE "exhausted"
           /\ owned' = IF done THEN OwnedAfterFinally(co, fo, ow) ELSE ow
           /\ callerHandle' = IF done THEN CallerAfterFinally(co, fo, callerHandle)
                              ELSE callerHandle
    /\ UNCHANGED <<inputs, batch, libHandle>>

\* next(gen) on read_csv with a chunk size: pd.read_csv(source, chunksize=...)
\* on the path itself (pandas opens it) or on the caller's handle; the
\* reader's own file_obj is opened and closed but never read.  pandas closes
\* the handle it opened when its iterator is exhausted.
PullCsvChunked ==
    /\ reader = "csv"
    /\ chunk_size > 0
    /\ pc \in {"created", "suspended"}
    /\ LET first == pc = "created"
           co == IF first THEN CsvCloseObjFor(srcKind) ELSE close_obj
           fo == IF ~first THEN file_obj ELSE IF srcKind = "path" THEN "owned" ELSE "caller"
           ow == IF first /\ fo = "owned" THEN "open" ELSE owned
           lib == IF first /\ srcKind = "path" THEN "open" ELSE libHandle
           t == TakeRows(content, idx + 1, chunk_size)
           recs == IF batch # <<>> THEN batch ELSE ChunkRecords(content[1], t.rows)
           done == recs = <<>>
       IN  /\ file_obj' = fo
           /\ close_obj' = co
           /\ codec' = IF ~first THEN codec
                       ELSE IF srcKind = "path" THEN PandasInferCodec(path) ELSE "plain"
           /\ idx' = IF batch # <<>> THEN idx ELSE t.idx
           /\ srcPos' = IF srcKind = "path" THEN 0 ELSE idx'
           /\ out' = IF done THEN out ELSE Append(out, Head(recs))
           /\ batch' = IF done THEN <<>> ELSE Tail(recs)
           /\ pc' = IF done THEN "exhausted" ELSE "suspended"
           /\ libHandle' = IF done /\ lib = "open" THEN "closed" ELSE lib
           /\ owned' = IF done THEN OwnedAfterFinally(co, fo, ow) ELSE ow
           /\ callerHandle' = IF done THEN CallerAfterFinally(co, fo, callerHandle)
                              ELSE callerHandle
    /\ UNCHANGED <<inputs, err>>

\* next(gen) on read_parquet.  pq.ParquetFile(source) opens the path and is
\* never closed by the reader; a handle is drained into a BytesIO that the
\* finally clause closes.  A corrupt container fails at open, before the try.
PullParquet ==
    /\ reader = "parquet"
    /\ pc \in {"created", "suspended"}
    /\ LET first == pc = "created"
           openFails == first /\ shape = "corrupt"
           co == IF first /\ ~openFails THEN ParquetCloseBufferFor(srcKind) ELSE close_obj
           fo == IF ~first THEN file_obj ELSE IF srcKind = "path" THEN "none" ELSE "owned"
           ow == IF first /\ fo = "owned" THEN "open" ELSE owned
           lib == IF first /\ srcKind = "path" /\ ~openFails THEN "open" ELSE libHandle
           rows == IF batch # <<>> THEN batch ELSE BatchRows(content, idx + 1, chunk_size)
           done == rows = <<>>
       IN  /\ file_obj' = fo
           /\ close_obj' = co
           /\ codec' = IF first THEN "plain" ELSE codec
           /\ srcPos' = IF srcKind = "path" THEN 0 ELSE Len(content)
           /\ libHandle' = lib
           /\ IF openFails
              THEN /\ pc' = "raised"
                   /\ err' = [kind |-> "RuntimeError", line |-> 0,
                              msg |-> IF srcKind = "path" THEN "Error opening Parquet file"
                                      ELSE "Error opening Parquet buffer"]
                   /\ owned' = ow
                   /\ UNCHANGED <<idx, out, batch, callerHandle>>
              ELSE /\ idx' = IF batch # <<>> THEN idx ELSE idx + Len(rows)
                   /\ out' = IF done THEN out ELSE Append(out, Head(rows))
                   /\ batch' = IF done THEN <<>> ELSE Tail(rows)
                   /\ pc' = IF done THEN "exhausted" ELSE "suspended"
                   /\ owned' = IF done THEN OwnedAfterFinally(co, fo, ow) ELSE ow
                   /\ callerHandle' = IF done THEN CallerAfterFinally(co, fo, callerHandle)
                                      ELSE callerHandle
                   /\ UNCHANGED err
    /\ UNCHANGED inputs

\* gen.close(): on a generator not yet started nothing runs; on one
\* suspended at a yield, GeneratorExit is raised there, `except Exception`
\* does not catch it and the finally clause runs.
Abandon ==
    /\ pc \in {"created", "suspended"}
    /\ pc' = "closed"
    /\ owned' = IF pc = "suspended" THEN OwnedAfterFinally(close_obj, file_obj, owned)
                ELSE owned
    /\ callerHandle' = IF pc = "suspended"
                       THEN CallerAfterFinally(close_obj, file_obj, callerHandle)
                       ELSE callerHandle
    /\ UNCHANGED <<inputs, idx, out, err, batch, file_obj, close_obj, libHandle,
                   codec, srcPos>>

\* next(gen) on a finished generator: StopIteration, nothing runs.
PullFinished ==
    /\ pc \in Terminated
    /\ UNCHANGED vars

Next ==
    \/ PullJsonl
    \/ PullArray
    \/ PullCsvStream
    \/ PullCsvChunked
    \/ PullParquet
    \/ Abandon
    \/ PullFinished

Spec == Init /\ [][Next]_vars

(* ------------------- reference definitions of the claims -------------- *)

NonSpace(s) == {k \in 1..Len(s) : s[k] # " "}
IsBlankLine(s) == NonSpace(s) = {}
SetMin(S) == CHOOSE x \in S : \A y \in S : x <= y
SetMax(S) == CHOOSE x \in S : \A y \in S : y <= x

\* The line without its leading and trailing white space.
Core(s) == IF IsBlankLine(s) THEN <<>> ELSE SubSeq(s, SetMin(NonSpace(s)), SetMax(NonSpace(s)))

IsNumeral(t) == Len(t) >= 1 /\ \A k \in 1..Len(t) : t[k] \in {"1", "2"}

RECURSIVE Pow10(_)
Pow10(n) == IF n = 0 THEN 1 ELSE 10 * Pow10(n - 1)

RECURSIVE PlaceSum(_, _)
PlaceSum(t, k) ==
    IF k > Len(t) THEN 0
    ELSE (IF t[k] = "1" THEN 1 ELSE 2) * Pow10(Len(t) - k) + PlaceSum(t, k + 1)

\* The value a numeral denotes.
Denoted(t) == PlaceSum(t, 1)

\* A line item that carries a record.
CarriesRecord(it) == it.ty # "obj" /\ ~Undecodable(it.s) /\ IsNumeral(Core(it.s))
\* A line item that carries none and is no error: blank text, or not text.
CarriesNothing(it) == it.ty = "obj" \/ (~Undecodable(it.s) /\ IsBlankLine(it.s))
\* A text line that is not blank and not valid JSON.
InvalidJson(it) ==
    it.ty # "obj" /\ ~Undecodable(it.s) /\ ~IsBlankLine(it.s) /\ ~IsNumeral(Core(it.s))

\* The decoded values of the record-carrying lines of c, in line order.
RECURSIVE Decoded(_)
Decoded(c) ==
    IF c = <<>> THEN <<>>
    ELSE IF CarriesRecord(Head(c)) THEN <<Denoted(Core(Head(c).s))>> \o Decoded(Tail(c))
    ELSE Decoded(Tail(c))

ValidJsonlInput ==
    \A i \in 1..Len(content) :
        /\ content[i].ty # "obj"
        /\ ~Undecodable(content[i].s)
        /\ (IsBlankLine(content[i].s) \/ IsNumeral(Core(content[i].s)))

\* C2: for a JSONL input whose non-blank lines are all valid JSON, read_jsonl
\* never raises, what it has yielded is always a prefix of the decoded values
\* of the non-blank lines in line order, and at exhaustion it is all of them:
\* one record per non-blank line, blank lines yielding nothing and not
\* stopping the stream.
C2_JsonlYieldsDecodedLines ==
    (reader = "jsonl" /\ ValidJsonlInput) =>
        /\ pc # "raised"
        /\ err = NoErr
        /\ IsPrefix(out, Decoded(content))
        /\ (pc = "exhausted" => out = Decoded(content))

C2_Witness ==
    /\ reader = "jsonl"
    /\ ValidJsonlInput
    /\ pc = "exhausted"
    /\ Len(content) = 3
    /\ IsBlankLine(content[2].s)
    /\ content[3].s = <<" ", "2", " ">>
    /\ Len(out) = 2

\* The text layer under a path source fails at or before line n.
LayerFailsUpTo(n) == \E i \in 1..n : TextLayerFails(srcKind, content, ahead, i)

\* Physical line n is the first non-blank line that is not valid JSON, and
\* every line before it is blank or valid text.
FirstInvalidAt(n) ==
    /\ n \in 1..Len(content)
    /\ InvalidJson(content[n])
    /\ \A i \in 1..(n - 1) :
           content[i].ty # "obj" /\ ~Undecodable(content[i].s) /\ ~InvalidJson(content[i])
    /\ ~LayerFailsUpTo(n)

\* C3: when the first non-blank line that is not valid JSON is physical line
\* n (blank lines counted, from 1), read_jsonl never ends normally; what it
\* raises is a JSONDecodeError carrying n and the decoder's message, raised
\* after every record of the lines before n was yielded in order; and no
\* record of line n or a later line is ever yielded.
C3_JsonlFailsAtFirstInvalidLine ==
    \A n \in 1..Len(content) :
        (reader = "jsonl" /\ FirstInvalidAt(n)) =>
            /\ pc # "exhausted"
            /\ idx <= n
            /\ IsPrefix(out, Decoded(SubSeq(content, 1, n - 1)))
            /\ (pc = "raised" =>
                    /\ err.kind = "JSONDecodeError"
                    /\ err.line = n
                    /\ err.msg = JsonErrMsg(Core(content[n].s))
                    /\ out = Decoded(SubSeq(content, 1, n - 1)))

C3_Witness ==
    /\ reader = "jsonl"
    /\ Len(content) = 3
    /\ IsBlankLine(content[1].s)
    /\ FirstInvalidAt(3)
    /\ pc = "raised"
    /\ err.line = 3
    /\ Len(out) = 1

\* C1 (as claimed): with a path source, no terminated stream leaves a handle
\* open that was opened for it: neither the reader's own file_obj nor the
\* handle a library opened on the path at the reader's call.
C1_OwnedHandlesReleased ==
    (srcKind = "path" /\ pc \in Terminated) => (owned # "open" /\ libHandle # "open")

\* What read_csv yields with chunk_size None on content c, from line i on.
RECURSIVE StreamRecords(_, _)
StreamRecords(c, i) ==
    LET o == CsvRun(c, i)
    IN  IF o.k = "yield" THEN <<o.val>> \o StreamRecords(c, o.idx + 1) ELSE <<>>

\* C4 (as claimed): on a source with no ragged row, read_csv with a chunk
\* size yields the records read_csv yields with chunk_size None: every field
\* as text, in file order.
C4_ChunkedEqualsStream ==
    (reader = "csv" /\ chunk_size > 0 /\ pc = "exhausted") =>
        /\ out = StreamRecords(content, 1)
        /\ \A m \in 1..Len(out) : \A key \in DOMAIN out[m] : out[m][key].t = "str"

\* Physical line n holds the first data row shorter than the header.
FirstShortRowAt(n) ==
    /\ n \in 2..Len(content)
    /\ Len(content[n]) \in 1..(Len(content[1]) - 1)
    /\ \A i \in 2..(n - 1) : Len(content[i]) \notin 1..(Len(content[1]) - 1)

\* The physical lines before n that hold a data row.
RowLinesBefore(n) == {i \in 2..(n - 1) : content[i] # <<>>}
\* The line of the m-th data row.
RowLine(m) == CHOOSE i \in 2..Len(content) :
                  content[i] # <<>> /\ Cardinality(RowLinesBefore(i)) = m - 1

\* Record d holds row's fields as text under the header's names.
KeyedByHeader(d, row) ==
    \A j \in 1..Len(content[1]) : d[content[1][j]] = [t |-> "str", v |-> <<row[j]>>]

SuffixLayer(p) ==
    CASE p[Len(p)] = ".gz" -> "gzip"
      [] p[Len(p)] = ".bz2" -> "bz2"
      [] OTHER -> "plain"

\* C6 (as claimed): for a path given to read_jsonl, read_json_array or
\* read_csv, with or without a chunk size, the data is read through the layer
\* the suffix names and through no other.
C6_CodecBySuffixAlone ==
    (srcKind = "path" /\ reader \in {"jsonl", "json_array", "csv"} /\ codec # "unopened")
        => codec = SuffixLayer(path)

\* C7: a handle the caller supplied is never closed by a reader, however the
\* stream ends; what a reader closes is the buffer it created itself.
C7_CallerHandleStaysOpen ==
    srcKind # "path" => (callerHandle = "open" /\ (owned = "closed" => file_obj = "owned"))

C7_Witness ==
    /\ srcKind = "handle"
    /\ reader = "jsonl"
    /\ pc = "raised"
    /\ Len(out) >= 1
    /\ callerHandle = "open"

\* Physical line n is the first line that is not UTF-8, and every line
\* before it carries a record or nothing.
FirstUndecodableAt(n) ==
    /\ n \in 1..Len(content)
    /\ content[n].ty = "bytes"
    /\ Undecodable(content[n].s)
    /\ \A i \in 1..(n - 1) : CarriesRecord(content[i]) \/ CarriesNothing(content[i])

HasFailure == shape = "unterminated" \/ \E j \in 1..Len(content) : ~content[j].ok
FirstFailure ==
    IF \E j \in 1..Len(content) : ~content[j].ok
    THEN SetMin({j \in 1..Len(content) : ~content[j].ok})
    ELSE Len(content) + 1

ElementValues(c) == [j \in 1..Len(c) |-> c[j].v]

\* C10 (as claimed): the decode failure of read_json_array is raised at the
\* pull where the failing element would have been produced, the elements
\* before it already yielded.
C10_ArrayFailsAtFailingElement ==
    (reader = "json_array" /\ shape # "object" /\ pc = "raised") =>
        /\ err.kind = "JSONDecodeError"
        /\ out = ElementValues(SubSeq(content, 1, FirstFailure - 1))

C10_StateInvariant ==
    (reader = "json_array" /\ HasFailure) =>
        /\ pc # "exhausted"
        /\ (shape # "object" =>
                IsPrefix(out, ElementValues(SubSeq(content, 1, FirstFailure - 1))))
        /\ (pc = "raised" => err.kind = "JSONDecodeError" /\ idx < FirstFailure)

\* C10 (amended): any decode failure of read_json_array is raised as a
\* JSONDecodeError no later than the pull where the failing element would
\* have been produced; the elements yielded before it are, in array order,
\* elements that precede the failing one, though not always all of them; the
\* stream never ends normally; and once the error is raised the stream is
\* terminated: a later pull yields nothing and changes nothing.
C10_ArrayFailureTerminates ==
    /\ [](C10_StateInvariant /\ (reader = "json_array" /\ pc = "raised" => HasFailure))
    /\ [][reader = "json_array" /\ pc = "raised" => pc' = "raised" /\ out' = out /\ err' = err]_vars

C10_Witness ==
    /\ reader = "json_array"
    /\ shape = "array"
    /\ Len(content) = 3
    /\ FirstFailure = 3
    /\ pc = "raised"
    /\ Len(out) = 1
    /\ err.kind = "JSONDecodeError"

====
